---------------------------- MODULE Spec2Model ----------------------------
(***************************************************************************)
(* Sigil's main.cpp: the bootstrap sequence of main(), the ordered         *)
(* translation lookup, GetMainWindow, VerifyPlugins and the Qt message     *)
(* handler MessageHandler with its clipboard-retry recovery.               *)
(*                                                                         *)
(* The model is of a release build (qInstallMessageHandler is compiled in, *)
(* line 226) against Qt >= 5.6 (QtInfoMsg exists, line 139).  The platform *)
(* macros Q_OS_WIN32, Q_OS_MAC and __HAIKU__ are the variable platform.    *)
(***************************************************************************)
EXTENDS Integers, Sequences, FiniteSets, TLC

VARIABLES
    platform,        \* which of Q_OS_WIN32 / Q_OS_MAC / __HAIKU__ the build defines
    recursionGuard,  \* the Qt of the build calls no message handler from inside one
    argv,            \* QCoreApplication::arguments(): program name, then the tokens
    macOpenPath,     \* AppEventFilter::getInitialFilePath(): "" when no FileOpen event came
    paths,           \* UILanguage::GetPossibleTranslationPaths()
    dirExists,       \* QDir(path).exists() for every directory
    loadable,        \* QTranslator::load(name, path) for every translator and directory
    pc,              \* the bootstrap step main() is about to run
    arguments,       \* the local QStringList arguments of main() (line 340)
    tr,              \* index in Translators of the translator being resolved
    idx,             \* position of the foreach loop in paths
    attempts,        \* per translator: the list positions load() was called on, in order
    loaded,          \* per translator: the list position it was loaded from, 0 when unloaded
    installed,       \* translators handed to app.installTranslator
    styleApplied,    \* app.setStyleSheet was called
    updateCheckStarted, \* UpdateChecker::CheckForUpdate was called
    filterInstalled, \* app.installEventFilter was called
    stdout,          \* lines written to std::cout
    pluginsVerified, \* VerifyPlugins() has returned
    mainWindow,      \* the MainWindow made by GetMainWindow, and whether show() ran
    baseWindowVisible, \* macOS menu bar host window basemw is shown
    exceptionDialogs,  \* dialogs shown by the catch block of main()
    exitStatus,      \* value returned by main(), NoStatus while it has not returned
    exitVia,         \* how the process ended
    logEnv,          \* value of WINDOWS_SIGIL_DEBUG_LOGFILE in the environment
    live,            \* the widgets that exist
    focus,           \* QApplication::focusWidget(), NoWidget for a null pointer
    timers,          \* pending QTimer::singleShot timers, in the order they were set
    fired,           \* the single-shot timer that fired last, and whether copy() ran
    stack,           \* MessageHandler calls blocked in their modal dialog, innermost last
    last,            \* the MessageHandler call that returned last
    nEmitted         \* number of messages handed to MessageHandler so far

bootVars == <<platform, recursionGuard, argv, macOpenPath, paths, dirExists, loadable, pc, arguments,
              tr, idx, attempts, loaded, installed, styleApplied, updateCheckStarted,
              filterInstalled, stdout, pluginsVerified, mainWindow, baseWindowVisible,
              exceptionDialogs, exitStatus, exitVia>>

handlerVars == <<logEnv, live, focus, timers, fired, stack, last, nEmitted>>

vars == <<bootVars, handlerVars>>

----------------------------------------------------------------------------
(* Bounds and input sets *)

MaxPaths == 3
MaxEvents == 2
MaxDestroyed == 1
MaxDialogs == 1

Platforms == {"win32", "mac", "linux", "haiku"}
Dirs == {"d1", "d2"}
Translators == <<"qtbase", "sigil">>
CandidateLists == UNION {[1..n -> Dirs] : n \in 0..MaxPaths}

FlagT == "-t"
ReadableFiles == {"/book.epub"}
ArgLists == { <<"sigil">>,
              <<"sigil", "/book.epub">>,
              <<"sigil", "/locked.epub">>,
              <<"sigil", "/locked.epub", "/book.epub">>,
              <<"sigil", FlagT>>,
              <<"sigil", "/book.epub", FlagT>> }
OpenPaths == {"", "/book.epub", "/locked.epub"}
ExitCodes == {0, 1}

NoStatus == -1
ScratchPath == "/tmp/Sigil/scratchpad"
NoWindow == [constructed |-> FALSE, filepath |-> "", visible |-> FALSE]

----------------------------------------------------------------------------
(* The widgets of the running application.  NoWidget is the null pointer.  *)
(* Widget 4 is an editable combo box with line edit 5; widget 6 is a      *)
(* combo box that is not editable, whose lineEdit() is null.  The last     *)
(* widget is the button of an open modal message box.                      *)

NoWidget == 0
WidgetKind == <<"QPlainTextEdit", "BookViewPreview", "QLineEdit", "QComboBox",
                "QLineEdit", "QComboBox", "QPushButton", "QPushButton">>
DialogButton == Len(WidgetKind)
Widgets == 1..(DialogButton - 1)
\* QObject children, deleted with their parent
Children(w) == IF w = 4 THEN {5} ELSE {}
\* The line edit of a combo box has the combo box as its focus proxy
Focusable == Widgets \ {5}
NoTimer == [target |-> NoWidget, waited |-> 0, copied |-> FALSE]

(* Message text is a sequence of characters.  "<e9>" is a Latin-1 character *)
(* outside ASCII, "<20ac>" a character outside Latin-1, "<00>" the NUL      *)
(* character and "<fffd>" the Unicode replacement character.                *)
WIN_CLIPBOARD_ERROR ==
    <<"Q", "C", "l", "i", "p", "b", "o", "a", "r", "d", ":", ":", "s", "e", "t", "M",
      "i", "m", "e", "D", "a", "t", "a", ":", " ", "F", "a", "i", "l", "e", "d", " ",
      "t", "o", " ", "s", "e", "t", " ", "d", "a", "t", "a", " ", "o", "n", " ", "c",
      "l", "i", "p", "b", "o", "a", "r", "d">>
RETRY_DELAY_MS == 5

Messages == << WIN_CLIPBOARD_ERROR \o <<" ", "(", "5", ")">>,
               <<" ">> \o WIN_CLIPBOARD_ERROR,
               <<"n", "<e9>", "<20ac>", "<00>", "z">> >>
Severities == {"Debug", "Info", "Warning", "Critical", "Fatal"}

\* Values of WINDOWS_SIGIL_DEBUG_LOGFILE: not set, empty, blank, the path of
\* a writable file with blanks around it, the path of a file that cannot be opened
Unset == "<unset>"
LogEnvValues == {Unset, "", "  ", " /log.txt ", "/ro/log.txt"}
WritableFiles == {"/log.txt"}

----------------------------------------------------------------------------
(* Helpers of main() *)

Contains(s, x) == \E i \in 1..Len(s) : s[i] = x

\* Utility::IsFileReadable
IsFileReadable(path) == path \in ReadableFiles

\* QFileInfo(filepath).absoluteFilePath(): the paths of the model are absolute
AbsoluteFilePath(path) == path

GetMainWindow_NoReadableCheck(args) == IF Len(args) > 1 THEN args[2] ELSE ""

\* GetMainWindow: the file path handed to the MainWindow constructor.
\* arguments.at(1) is the second element of the list.
GetMainWindow(args) ==
    IF Len(args) > 1 /\ IsFileReadable(args[2]) THEN args[2] ELSE ""

\* lines 340-353: the argument list main() works on
EffectiveArguments ==
    IF platform = "mac" /\ Len(argv) = 1 /\ macOpenPath # ""
    THEN Append(argv, AbsoluteFilePath(macOpenPath))
    ELSE argv

HasDiagnosticFlag_FirstOnly(args) == Len(args) > 1 /\ args[2] = FlagT

\* line 355: arguments.contains("-t")
HasDiagnosticFlag(args) == Contains(args, FlagT)

AfterParsing_SkipVerify(args) ==
    IF HasDiagnosticFlag(args) THEN "ScratchpadQueryMode" ELSE "ShowingMainWindow"

\* lines 355-359: the branch main() takes after reading the arguments
AfterParsing(args) ==
    IF HasDiagnosticFlag(args) THEN "ScratchpadQueryMode" ELSE "VerifyingPlugins"

\* The steps of main() that run inside the try block (lines 262-413)
TrySteps == {"ConfiguringLibraries", "LoadingPreferences", "InstallingTranslations",
             "ApplyingTheme", "StartingBackgroundUpdateCheck", "InstallingEventFilters",
             "ParsingArguments", "ScratchpadQueryMode", "VerifyingPlugins",
             "ShowingMainWindow"}

\* The UI thread is free to run the next statement of main()
MainRuns == stack = <<>>

----------------------------------------------------------------------------
(* The bootstrap steps of main() *)

Goto(step) == pc' = step

\* lines 225-260: version check, message handler, application metadata,
\* MainApplication, embedded python: all before the try block
ConfiguringEnvironment ==
    /\ pc = "ConfiguringEnvironment" /\ MainRuns
    /\ Goto("ConfiguringLibraries")
    /\ UNCHANGED handlerVars
    /\ UNCHANGED <<platform, recursionGuard, argv, macOpenPath, paths, dirExists, loadable, arguments,
                   tr, idx, attempts, loaded, installed, styleApplied,
                   updateCheckStarted, filterInstalled, stdout, pluginsVerified,
                   mainWindow, baseWindowVisible, exceptionDialogs, exitStatus, exitVia>>

\* lines 262-270: library paths and the locale codec
ConfiguringLibraries ==
    /\ pc = "ConfiguringLibraries" /\ MainRuns
    /\ Goto("LoadingPreferences")
    /\ UNCHANGED handlerVars
    /\ UNCHANGED <<platform, recursionGuard, argv, macOpenPath, paths, dirExists, loadable, arguments,
                   tr, idx, attempts, loaded, installed, styleApplied,
                   updateCheckStarted, filterInstalled, stdout, pluginsVerified,
                   mainWindow, baseWindowVisible, exceptionDialogs, exitStatus, exitVia>>

\* line 271: SettingsStore settings
LoadingPreferences ==
    /\ pc = "LoadingPreferences" /\ MainRuns
    /\ Goto("InstallingTranslations")
    /\ tr' = 1 /\ idx' = 1
    /\ UNCHANGED handlerVars
    /\ UNCHANGED <<platform, recursionGuard, argv, macOpenPath, paths, dirExists, loadable, arguments,
                   attempts, loaded, installed, styleApplied,
                   updateCheckStarted, filterInstalled, stdout, pluginsVerified,
                   mainWindow, baseWindowVisible, exceptionDialogs, exitStatus, exitVia>>

LoadAttempt_NoExistsCheck(t, i) ==
    [attempts |-> Append(attempts[t], i),
     loaded   |-> IF dirExists[paths[i]] /\ loadable[t][paths[i]] THEN i ELSE 0]

\* One iteration of the foreach loop (lines 277-283 and 291-297) for
\* translator t at list position i: the new attempts and loaded of t.
LoadAttempt(t, i) ==
    IF dirExists[paths[i]]
    THEN [attempts |-> Append(attempts[t], i),
          loaded   |-> IF loadable[t][paths[i]] THEN i ELSE 0]
    ELSE [attempts |-> attempts[t], loaded |-> 0]

LoopRuns_NoBreak == idx <= Len(paths)

\* The loop goes on while the list has a next element and no load succeeded (break)
LoopRuns == idx <= Len(paths) /\ loaded[Translators[tr]] = 0

ResolveStep ==
    /\ pc = "InstallingTranslations" /\ MainRuns
    /\ LoopRuns
    /\ LET t == Translators[tr]
           r == LoadAttempt(t, idx)
       IN /\ attempts' = [attempts EXCEPT ![t] = r.attempts]
          /\ loaded' = [loaded EXCEPT ![t] = r.loaded]
    /\ idx' = idx + 1
    /\ UNCHANGED handlerVars
    /\ UNCHANGED <<platform, recursionGuard, argv, macOpenPath, paths, dirExists, loadable, pc, arguments,
                   tr, installed, styleApplied,
                   updateCheckStarted, filterInstalled, stdout, pluginsVerified,
                   mainWindow, baseWindowVisible, exceptionDialogs, exitStatus, exitVia>>

\* lines 284 and 298: app.installTranslator, loaded or not
InstallTranslator ==
    /\ pc = "InstallingTranslations" /\ MainRuns
    /\ ~LoopRuns
    /\ installed' = installed \cup {Translators[tr]}
    /\ IF tr < Len(Translators)
       THEN tr' = tr + 1 /\ idx' = 1 /\ UNCHANGED pc
       ELSE Goto("ApplyingTheme") /\ UNCHANGED <<tr, idx>>
    /\ UNCHANGED handlerVars
    /\ UNCHANGED <<platform, recursionGuard, argv, macOpenPath, paths, dirExists, loadable, arguments,
                   attempts, loaded, styleApplied,
                   updateCheckStarted, filterInstalled, stdout, pluginsVerified,
                   mainWindow, baseWindowVisible, exceptionDialogs, exitStatus, exitVia>>

AfterTheme_NoUpdateCheck == "InstallingEventFilters"

\* lines 330-333: the update check is compiled out of a Haiku build, where
\* the event filter (line 337) follows the stylesheet directly
AfterTheme ==
    IF platform = "haiku" THEN "InstallingEventFilters"
    ELSE "StartingBackgroundUpdateCheck"

\* lines 300-327: qt_styles.qss is applied when it exists, is a file and is readable
ApplyingTheme ==
    /\ pc = "ApplyingTheme" /\ MainRuns
    /\ \E sheetReadable \in BOOLEAN : styleApplied' = sheetReadable
    /\ Goto(AfterTheme)
    /\ UNCHANGED handlerVars
    /\ UNCHANGED <<platform, recursionGuard, argv, macOpenPath, paths, dirExists, loadable, arguments,
                   tr, idx, attempts, loaded, installed,
                   updateCheckStarted, filterInstalled, stdout, pluginsVerified,
                   mainWindow, baseWindowVisible, exceptionDialogs, exitStatus, exitVia>>

\* lines 331-332
StartingBackgroundUpdateCheck ==
    /\ pc = "StartingBackgroundUpdateCheck" /\ MainRuns
    /\ updateCheckStarted' = TRUE
    /\ Goto("InstallingEventFilters")
    /\ UNCHANGED handlerVars
    /\ UNCHANGED <<platform, recursionGuard, argv, macOpenPath, paths, dirExists, loadable, arguments,
                   tr, idx, attempts, loaded, installed, styleApplied,
                   filterInstalled, stdout, pluginsVerified,
                   mainWindow, baseWindowVisible, exceptionDialogs, exitStatus, exitVia>>

\* lines 337-338
InstallingEventFilters ==
    /\ pc = "InstallingEventFilters" /\ MainRuns
    /\ filterInstalled' = TRUE
    /\ Goto("ParsingArguments")
    /\ UNCHANGED handlerVars
    /\ UNCHANGED <<platform, recursionGuard, argv, macOpenPath, paths, dirExists, loadable, arguments,
                   tr, idx, attempts, loaded, installed, styleApplied,
                   updateCheckStarted, stdout, pluginsVerified,
                   mainWindow, baseWindowVisible, exceptionDialogs, exitStatus, exitVia>>

\* lines 340-355 and, on the normal branch, the macOS menu bar window of
\* lines 361-407, which is shown before VerifyPlugins is called
ParsingArguments ==
    /\ pc = "ParsingArguments" /\ MainRuns
    /\ arguments' = EffectiveArguments
    /\ Goto(AfterParsing(arguments'))
    /\ baseWindowVisible' = (platform = "mac" /\ ~HasDiagnosticFlag(arguments'))
    /\ UNCHANGED handlerVars
    /\ UNCHANGED <<platform, recursionGuard, argv, macOpenPath, paths, dirExists, loadable,
                   tr, idx, attempts, loaded, installed, styleApplied,
                   updateCheckStarted, filterInstalled, stdout, pluginsVerified,
                   mainWindow, exceptionDialogs, exitStatus, exitVia>>

\* lines 356-357
ScratchpadQueryMode ==
    /\ pc = "ScratchpadQueryMode" /\ MainRuns
    /\ stdout' = Append(stdout, ScratchPath)
    /\ exitStatus' = 1
    /\ exitVia' = "scratchpad"
    /\ Goto("Terminated")
    /\ UNCHANGED handlerVars
    /\ UNCHANGED <<platform, recursionGuard, argv, macOpenPath, paths, dirExists, loadable, arguments,
                   tr, idx, attempts, loaded, installed, styleApplied,
                   updateCheckStarted, filterInstalled, pluginsVerified,
                   mainWindow, baseWindowVisible, exceptionDialogs>>

\* line 409 and lines 215-219
VerifyPlugins ==
    /\ pc = "VerifyingPlugins" /\ MainRuns
    /\ pluginsVerified' = TRUE
    /\ Goto("ShowingMainWindow")
    /\ UNCHANGED handlerVars
    /\ UNCHANGED <<platform, recursionGuard, argv, macOpenPath, paths, dirExists, loadable, arguments,
                   tr, idx, attempts, loaded, installed, styleApplied,
                   updateCheckStarted, filterInstalled, stdout,
                   mainWindow, baseWindowVisible, exceptionDialogs, exitStatus, exitVia>>

\* lines 410-411
ShowingMainWindow ==
    /\ pc = "ShowingMainWindow" /\ MainRuns
    /\ mainWindow' = [constructed |-> TRUE, filepath |-> GetMainWindow(arguments),
                      visible |-> TRUE]
    /\ live' = Widgets
    /\ focus' = NoWidget
    /\ Goto("RunningEventLoop")
    /\ UNCHANGED <<logEnv, timers, fired, stack, last, nEmitted>>
    /\ UNCHANGED <<platform, recursionGuard, argv, macOpenPath, paths, dirExists, loadable, arguments,
                   tr, idx, attempts, loaded, installed, styleApplied,
                   updateCheckStarted, filterInstalled, stdout, pluginsVerified,
                   baseWindowVisible, exceptionDialogs, exitStatus, exitVia>>

ExitStatusOf_Success(code) == 0

\* line 412: return app.exec()
ExitStatusOf(code) == code

\* line 412: app.exec() returns the exit code the application was asked to quit with
EventLoopReturns ==
    /\ pc = "RunningEventLoop" /\ MainRuns
    /\ \E code \in ExitCodes : exitStatus' = ExitStatusOf(code)
    /\ exitVia' = "eventloop"
    /\ Goto("Terminated")
    /\ UNCHANGED handlerVars
    /\ UNCHANGED <<platform, recursionGuard, argv, macOpenPath, paths, dirExists, loadable, arguments,
                   tr, idx, attempts, loaded, installed, styleApplied,
                   updateCheckStarted, filterInstalled, stdout, pluginsVerified,
                   mainWindow, baseWindowVisible, exceptionDialogs>>

\* A std::exception thrown by a step: inside the try block it reaches the
\* catch of lines 414-417; before the try block nothing catches it and the
\* C++ runtime calls std::terminate.
RaiseException ==
    /\ pc \in TrySteps \cup {"ConfiguringEnvironment"} /\ MainRuns
    /\ IF pc \in TrySteps
       THEN /\ exceptionDialogs' = exceptionDialogs + 1
            /\ exitStatus' = 1
            /\ exitVia' = "exception"
            /\ Goto("Terminated")
       ELSE /\ exitVia' = "terminate"
            /\ Goto("Aborted")
            /\ UNCHANGED <<exceptionDialogs, exitStatus>>
    /\ UNCHANGED handlerVars
    /\ UNCHANGED <<platform, recursionGuard, argv, macOpenPath, paths, dirExists, loadable, arguments,
                   tr, idx, attempts, loaded, installed, styleApplied,
                   updateCheckStarted, filterInstalled, stdout, pluginsVerified,
                   mainWindow, baseWindowVisible>>

----------------------------------------------------------------------------
(* MessageHandler *)

Chars(prefix) ==
    CASE prefix = "Debug"    -> <<"D", "e", "b", "u", "g", ":", " ">>
      [] prefix = "Info"     -> <<"I", "n", "f", "o", ":", " ">>
      [] prefix = "Warning"  -> <<"W", "a", "r", "n", "i", "n", "g", ":", " ">>
      [] prefix = "Critical" -> <<"C", "r", "i", "t", "i", "c", "a", "l", ":", " ">>
      [] prefix = "Fatal"    -> <<"F", "a", "t", "a", "l", ":", " ">>

\* QString::toLatin1: a character outside Latin-1 becomes '?'
ToLatin1(msg) == [i \in 1..Len(msg) |-> IF msg[i] = "<20ac>" THEN "?" ELSE msg[i]]

\* QByteArray::constData read as a C string: it ends at the first NUL
RECURSIVE ConstData(_)
ConstData(bytes) ==
    IF bytes = <<>> \/ Head(bytes) = "<00>" THEN <<>>
    ELSE <<Head(bytes)>> \o ConstData(Tail(bytes))

\* QString(const char *) decodes UTF-8: a lone Latin-1 byte above 0x7f is
\* not valid UTF-8 and becomes the replacement character
FromUtf8(bytes) == [i \in 1..Len(bytes) |-> IF bytes[i] = "<e9>" THEN "<fffd>" ELSE bytes[i]]

\* message.toLatin1().constData()
Latin1CStr(msg) == ConstData(ToLatin1(msg))

\* message.toLocal8Bit().constData(): the local encodings of the model
\* (UTF-8, Windows-1252) hold every character of its messages
Local8BitCStr(msg) == ConstData(msg)

\* The conversions of every message of the model, computed once
Latin1Of == [m \in 1..Len(Messages) |-> Latin1CStr(Messages[m])]
Local8BitOf == [m \in 1..Len(Messages) |-> Local8BitCStr(Messages[m])]
ErrorMessageOf == [m \in 1..Len(Messages) |-> FromUtf8(Latin1Of[m])]

\* QString::startsWith
StartsWith(s, prefix) ==
    Len(s) >= Len(prefix) /\ SubSeq(s, 1, Len(prefix)) = prefix

\* dynamic_cast<kind *>(widget)
DynamicCast(kind, w) == IF w # NoWidget /\ WidgetKind[w] = kind THEN w ELSE NoWidget

\* QComboBox::lineEdit
ComboLineEdit(w) == IF w = 4 THEN 5 ELSE NoWidget

SingleShot_NoDelay(msec, receiver) ==
    IF receiver # NoWidget
    THEN << [target |-> receiver, interval |-> 0, elapsed |-> 0] >>
    ELSE <<>>

\* QTimer::singleShot(msec, receiver, SLOT(copy())): the timer it sets, with
\* the milliseconds gone by since; Qt sets no timer when the receiver is null
SingleShot(msec, receiver) ==
    IF receiver # NoWidget
    THEN << [target |-> receiver, interval |-> msec, elapsed |-> 0] >>
    ELSE <<>>

ClipboardRecovery_EveryPlatform(error_message, widget) ==
    IF StartsWith(error_message, WIN_CLIPBOARD_ERROR)
       /\ DynamicCast("QPlainTextEdit", widget) # NoWidget
    THEN [handled |-> TRUE, scheduled |-> SingleShot(RETRY_DELAY_MS, widget)]
    ELSE [handled |-> FALSE, scheduled |-> <<>>]

ClipboardRecovery_AnyWidget(error_message, widget) ==
    IF platform = "win32" /\ StartsWith(error_message, WIN_CLIPBOARD_ERROR)
                          /\ widget # NoWidget
    THEN [handled |-> TRUE, scheduled |-> SingleShot(RETRY_DELAY_MS, widget)]
    ELSE [handled |-> FALSE, scheduled |-> <<>>]

\* lines 150-192: handled is TRUE when one of the four breaks is taken,
\* scheduled holds the timer that was set
ClipboardRecovery(error_message, widget) ==
    IF platform = "win32" /\ StartsWith(error_message, WIN_CLIPBOARD_ERROR)
                          /\ widget # NoWidget
    THEN IF DynamicCast("QPlainTextEdit", widget) # NoWidget
         THEN [handled |-> TRUE, scheduled |-> SingleShot(RETRY_DELAY_MS,
                                                   DynamicCast("QPlainTextEdit", widget))]
         ELSE IF DynamicCast("BookViewPreview", widget) # NoWidget
         THEN [handled |-> TRUE, scheduled |-> SingleShot(RETRY_DELAY_MS,
                                                   DynamicCast("BookViewPreview", widget))]
         ELSE IF DynamicCast("QLineEdit", widget) # NoWidget
         THEN [handled |-> TRUE, scheduled |-> SingleShot(RETRY_DELAY_MS,
                                                   DynamicCast("QLineEdit", widget))]
         ELSE IF DynamicCast("QComboBox", widget) # NoWidget
         THEN [handled |-> TRUE,
               scheduled |-> SingleShot(RETRY_DELAY_MS,
                                        ComboLineEdit(DynamicCast("QComboBox", widget)))]
         ELSE [handled |-> FALSE, scheduled |-> <<>>]
    ELSE [handled |-> FALSE, scheduled |-> <<>>]

StderrLines_EverySeverity(type, m) == << Chars(type) \o Latin1Of[m] >>

\* What fprintf(stderr, ...) writes in the switch (lines 133-199)
StderrLines(type, m) ==
    IF type \in {"Debug", "Info", "Warning"}
    THEN << Chars(type) \o Latin1Of[m] >>
    ELSE <<>>

\* win_debug_message: set for QtDebugMsg only (line 136), else empty
WinDebugMessage(type, m) ==
    IF type = "Debug" THEN Chars("Debug") \o ErrorMessageOf[m] ELSE <<>>

\* The switch of MessageHandler (lines 133-199) for message m of severity
\* type, with widget the focus widget: what the call has done when it
\* leaves the switch or stops in the modal dialog of
\* Utility::DisplayExceptionErrorDialog.  The record keeps the focus widget
\* of a Critical message, the only severity that may look at it.
Switch(type, m, widget) ==
    LET message == Messages[m]
        error_message == ErrorMessageOf[m]
        rec == IF type = "Critical" THEN ClipboardRecovery(error_message, widget)
               ELSE [handled |-> FALSE, scheduled |-> <<>>]
    IN [type |-> type, m |-> m,
        focus |-> IF type = "Critical" THEN widget ELSE NoWidget,
        stderr |-> StderrLines(type, m),
        wdm |-> WinDebugMessage(type, m),
        handled |-> rec.handled,
        scheduled |-> rec.scheduled,
        dialogs |-> IF type = "Critical" /\ ~rec.handled
                    THEN << Chars("Critical") \o error_message >>
                    ELSE IF type = "Fatal" THEN << Chars("Fatal") \o message >>
                    ELSE <<>>,
        logLines |-> <<>>,
        state |-> "running"]

\* QString::trimmed of the values of the environment variable
Trimmed(v) ==
    CASE v = " /log.txt " -> "/log.txt"
      [] v = "  " -> ""
      [] OTHER -> v

\* lines 200-211: the lines appended to the log file after the switch.
\* QFile::open fails for a path that cannot be written and the stream
\* then writes nothing.
LogLines(call) ==
    IF platform = "win32" /\ logEnv # Unset /\ logEnv # ""
    THEN IF Trimmed(logEnv) \in WritableFiles THEN << call.wdm >> ELSE <<>>
    ELSE <<>>

\* From the end of the switch to the return of MessageHandler
Return(call) == [call EXCEPT !.logLines = LogLines(call), !.state = "returned"]

NoCall == [type |-> "none", m |-> 0, focus |-> NoWidget, stderr |-> <<>>, wdm |-> <<>>,
           handled |-> FALSE, scheduled |-> <<>>, dialogs |-> <<>>, logLines |-> <<>>,
           state |-> "none"]

AbortsAfterDialog_Never(call) == FALSE

\* line 198: abort() follows the dialog of a Fatal message
AbortsAfterDialog(call) == call.type = "Fatal"

\* QApplication::focusWidget(): an open modal message box holds the focus
FocusWidget == IF stack # <<>> THEN DialogButton ELSE focus

\* The process runs, and the handler is installed (line 227)
Alive == pc \notin {"ConfiguringEnvironment", "Terminated", "Aborted"}

Bypassed_Never == FALSE

\* A message emitted on the UI thread while a MessageHandler call is in
\* progress there (in its modal dialog): a Qt with the recursion guard
\* does not call the installed handler again
Bypassed == recursionGuard /\ stack # <<>>

\* What Qt does with a message it keeps from the handler: it writes the
\* text alone to standard error
Printed(type, m) ==
    [NoCall EXCEPT !.type = type, !.m = m, !.stderr = << Local8BitOf[m] >>,
                   !.state = "printed"]

\* qDebug, qInfo, qWarning, qCritical or qFatal is called somewhere in the
\* process: MessageHandler runs to its return, or to its modal dialog.
\* A message kept from the handler is printed by Qt, which aborts the
\* process after a Fatal one.
Emit(type, m) ==
    /\ Alive
    /\ nEmitted < MaxEvents
    /\ nEmitted' = nEmitted + 1
    /\ IF Bypassed
       THEN /\ last' = Printed(type, m)
            /\ IF type = "Fatal"
               THEN pc' = "Aborted" /\ exitVia' = "abort"
               ELSE UNCHANGED <<pc, exitVia>>
            /\ UNCHANGED <<stack, timers>>
       ELSE /\ LET call == Switch(type, m, FocusWidget)
               IN /\ call.dialogs # <<>> => Len(stack) < MaxDialogs
                  /\ timers' = timers \o call.scheduled
                  /\ IF call.dialogs # <<>>
                     THEN /\ stack' = Append(stack, [call EXCEPT !.state = "dialog"])
                          /\ UNCHANGED last
                     ELSE /\ last' = Return(call)
                          /\ UNCHANGED stack
            /\ UNCHANGED <<pc, exitVia>>
    /\ UNCHANGED <<logEnv, live, focus, fired>>
    /\ UNCHANGED <<platform, recursionGuard, argv, macOpenPath, paths, dirExists, loadable,
                   arguments, tr, idx, attempts, loaded, installed, styleApplied,
                   updateCheckStarted, filterInstalled, stdout, pluginsVerified,
                   mainWindow, baseWindowVisible, exceptionDialogs, exitStatus>>

\* The user closes the innermost modal dialog: a Critical call goes on to
\* its return, a Fatal call reaches abort() (line 198)
CloseDialog ==
    /\ Alive
    /\ stack # <<>>
    /\ LET call == stack[Len(stack)]
       IN IF AbortsAfterDialog(call)
          THEN /\ stack' = [stack EXCEPT ![Len(stack)].state = "aborted"]
               /\ pc' = "Aborted"
               /\ exitVia' = "abort"
               /\ UNCHANGED last
          ELSE /\ stack' = SubSeq(stack, 1, Len(stack) - 1)
               /\ last' = Return(call)
               /\ UNCHANGED <<pc, exitVia>>
    /\ UNCHANGED <<logEnv, live, focus, timers, fired, nEmitted>>
    /\ UNCHANGED <<platform, recursionGuard, argv, macOpenPath, paths, dirExists, loadable, arguments,
                   tr, idx, attempts, loaded, installed, styleApplied,
                   updateCheckStarted, filterInstalled, stdout, pluginsVerified,
                   mainWindow, baseWindowVisible, exceptionDialogs, exitStatus>>

\* The event loop of app.exec(), or the one a modal dialog runs, is dispatching
EventLoopRuns == Alive /\ (pc = "RunningEventLoop" \/ stack # <<>>)

\* Keyboard focus moves to another widget of the application, or to none;
\* an open modal message box keeps the focus to itself
FocusChange(w) ==
    /\ EventLoopRuns
    /\ stack = <<>>
    /\ w \in (live \cap Focusable) \cup {NoWidget}
    /\ w # focus
    /\ focus' = w
    /\ UNCHANGED <<logEnv, live, timers, fired, stack, last, nEmitted>>
    /\ UNCHANGED bootVars

\* A widget is deleted, with its children
DestroyWidget(w) ==
    /\ EventLoopRuns
    /\ w \in live
    /\ Cardinality(Widgets \ live) < MaxDestroyed
    /\ live' = live \ ({w} \cup Children(w))
    /\ focus' = IF focus \in live' THEN focus ELSE NoWidget
    /\ UNCHANGED <<logEnv, timers, fired, stack, last, nEmitted>>
    /\ UNCHANGED bootVars

CopyRuns_Always(receiver) == TRUE

\* The timeout signal of a single-shot timer reaches copy() of its receiver
\* when the receiver still exists: Qt disconnected a deleted receiver, and
\* the timer then fires into nothing
CopyRuns(receiver) == receiver \in live

\* The timers whose interval has not gone by yet
Waiting == {i \in 1..Len(timers) : timers[i].elapsed < timers[i].interval}

\* The milliseconds until the next of them is due
NextDue ==
    LET left(i) == timers[i].interval - timers[i].elapsed
    IN left(CHOOSE i \in Waiting : \A j \in Waiting : left(i) <= left(j))

\* Time goes by until the next waiting timer is due; the time a timer has
\* waited is counted up to its interval
Tick ==
    /\ Alive
    /\ Waiting # {}
    /\ timers' = [i \in 1..Len(timers) |->
                    IF i \in Waiting
                    THEN [timers[i] EXCEPT !.elapsed = @ + NextDue]
                    ELSE timers[i]]
    /\ UNCHANGED <<logEnv, live, focus, fired, stack, last, nEmitted>>
    /\ UNCHANGED bootVars

\* The oldest single-shot timer fires: the event loop finds its interval
\* gone by
FireRetry ==
    /\ EventLoopRuns
    /\ timers # <<>>
    /\ Head(timers).elapsed >= Head(timers).interval
    /\ timers' = Tail(timers)
    /\ fired' = [target |-> Head(timers).target, waited |-> Head(timers).elapsed,
                 copied |-> CopyRuns(Head(timers).target)]
    /\ UNCHANGED <<logEnv, live, focus, stack, last, nEmitted>>
    /\ UNCHANGED bootVars

----------------------------------------------------------------------------
(* The bootstrap alone, over every argument list and translation layout *)

InitBootState ==
    /\ pc = "ConfiguringEnvironment"
    /\ arguments = <<>>
    /\ tr = 1 /\ idx = 1
    /\ attempts = [t \in {"qtbase", "sigil"} |-> <<>>]
    /\ loaded = [t \in {"qtbase", "sigil"} |-> 0]
    /\ installed = {}
    /\ styleApplied = FALSE
    /\ updateCheckStarted = FALSE
    /\ filterInstalled = FALSE
    /\ stdout = <<>>
    /\ pluginsVerified = FALSE
    /\ mainWindow = NoWindow
    /\ baseWindowVisible = FALSE
    /\ exceptionDialogs = 0
    /\ exitStatus = NoStatus
    /\ exitVia = "none"

InitHandlerState ==
    /\ live = {}
    /\ focus = NoWidget
    /\ timers = <<>>
    /\ fired = NoTimer
    /\ stack = <<>>
    /\ last = NoCall
    /\ nEmitted = 0

\* No message is emitted during the bootstrap alone
InitBoot ==
    /\ platform \in Platforms
    /\ recursionGuard = TRUE
    /\ argv \in ArgLists
    /\ macOpenPath \in (IF platform = "mac" THEN OpenPaths ELSE {""})
    /\ paths \in CandidateLists
    /\ dirExists \in [Dirs -> BOOLEAN]
    /\ loadable \in [{"qtbase", "sigil"} -> [Dirs -> BOOLEAN]]
    /\ InitBootState
    /\ logEnv = Unset
    /\ InitHandlerState

NextBoot ==
    \/ ConfiguringEnvironment
    \/ ConfiguringLibraries
    \/ LoadingPreferences
    \/ ResolveStep
    \/ InstallTranslator
    \/ ApplyingTheme
    \/ StartingBackgroundUpdateCheck
    \/ InstallingEventFilters
    \/ ParsingArguments
    \/ ScratchpadQueryMode
    \/ VerifyPlugins
    \/ ShowingMainWindow
    \/ EventLoopReturns
    \/ RaiseException

SpecBoot == InitBoot /\ [][NextBoot]_vars

----------------------------------------------------------------------------
(* The whole process: main() on one translation layout, the messages the  *)
(* process emits, the widgets, the timers and the modal dialogs            *)

SampleLayout ==
    /\ paths = <<"d1", "d2">>
    /\ dirExists = [d \in Dirs |-> d = "d2"]
    /\ loadable = [t \in {"qtbase", "sigil"} |-> [d \in Dirs |-> t = "sigil"]]

\* The environment variable is read on Windows only
Init ==
    /\ platform \in Platforms
    /\ recursionGuard \in BOOLEAN
    /\ argv \in {<<"sigil">>, <<"sigil", FlagT>>}
    /\ macOpenPath = ""
    /\ SampleLayout
    /\ InitBootState
    /\ logEnv \in (IF platform = "win32" THEN LogEnvValues ELSE {Unset})
    /\ InitHandlerState

Next ==
    \/ NextBoot
    \/ \E type \in Severities, m \in 1..Len(Messages) : Emit(type, m)
    \/ CloseDialog
    \/ \E w \in Focusable \cup {NoWidget} : FocusChange(w)

Spec == Init /\ [][Next]_vars

----------------------------------------------------------------------------
(* The event loop on Windows: the retry timers and the lifetime of their  *)
(* receivers, with the clipboard error text as a Debug and as a Critical   *)
(* message                                                                 *)

InitLoop ==
    /\ platform = "win32"
    /\ recursionGuard \in BOOLEAN
    /\ argv \in {<<"sigil">>, <<"sigil", FlagT>>}
    /\ macOpenPath = ""
    /\ SampleLayout
    /\ InitBootState
    /\ logEnv = Unset
    /\ InitHandlerState

NextLoop ==
    \/ NextBoot
    \/ \E type \in {"Debug", "Critical"} : Emit(type, 1)
    \/ CloseDialog
    \/ \E w \in Focusable \cup {NoWidget} : FocusChange(w)
    \/ \E w \in Widgets : DestroyWidget(w)
    \/ Tick
    \/ FireRetry

SpecLoop == InitLoop /\ [][NextLoop]_vars

----------------------------------------------------------------------------
(* Properties of MessageHandler, checked under Spec *)

\* Every MessageHandler call the state still knows: those stopped in their
\* dialog and the one that returned last
Calls ==
    {stack[i] : i \in 1..Len(stack)} \cup (IF last.state = "returned" THEN {last} ELSE {})

\* Qt has printed a Fatal message it kept from the handler, and aborted
FatalPrinted == last.state = "printed" /\ last.type = "Fatal"

SupportedKinds == {"QPlainTextEdit", "BookViewPreview", "QLineEdit", "QComboBox"}
SupportedFocus(w) == w # NoWidget /\ WidgetKind[w] \in SupportedKinds
HasSignature(m) == StartsWith(Messages[m], WIN_CLIPBOARD_ERROR)

\* The text of message m as a C string of Latin-1 bytes, and decoded again,
\* written out for the messages of the model
ExpectedBytes(m) == IF m = 3 THEN <<"n", "<e9>", "?">> ELSE Messages[m]
ExpectedText(m) == IF m = 3 THEN <<"n", "<fffd>", "?">> ELSE Messages[m]

FatalPending == \E i \in 1..Len(stack) : stack[i].type = "Fatal"

\* C1: on Windows, a Critical message that starts with the clipboard error
\* text, handled while a plain text editor, a book view, a line edit or a
\* combo box has the focus, sets exactly one timer for copy() on that widget
\* (for a combo box, on its line edit) and shows no dialog.
C1_RetryScheduledForSupportedFocus ==
    \A c \in Calls :
        (c.type = "Critical" /\ platform = "win32" /\ HasSignature(c.m)
                             /\ SupportedFocus(c.focus))
        => /\ Len(c.scheduled) = 1
           /\ c.scheduled[1].target = (IF WidgetKind[c.focus] = "QComboBox"
                                       THEN ComboLineEdit(c.focus) ELSE c.focus)
           /\ c.scheduled[1].target # NoWidget
           /\ c.dialogs = <<>>

\* C2: a Critical message without the clipboard error text at its start, or
\* handled while no widget or a widget of another kind has the focus, shows
\* the dialog "Critical: <message>" exactly once, sets no timer, and the call
\* returns: a Critical message never ends the process.
C2_OtherCriticalShowsDialog ==
    /\ \A c \in Calls :
        (c.type = "Critical" /\ (~HasSignature(c.m) \/ ~SupportedFocus(c.focus)))
        => /\ c.dialogs = << Chars("Critical") \o ExpectedText(c.m) >>
           /\ c.scheduled = <<>>
           /\ c.state \in {"dialog", "returned"}
    /\ \A i \in 1..Len(stack) : stack[i].state = "aborted" => stack[i].type = "Fatal"
    /\ exitVia = "abort"
       => \/ stack # <<>> /\ stack[Len(stack)].type = "Fatal"
          \/ FatalPrinted

C2_Witness ==
    /\ platform = "win32"
    /\ last.type = "Critical" /\ HasSignature(last.m)
    /\ last.focus = 7
    /\ last.state = "returned" /\ Len(last.dialogs) = 1
    /\ pc = "RunningEventLoop"

\* C3 as stated: once a Fatal message is handed to MessageHandler the call
\* never returns, no further message is handled and main() takes no further
\* step.
C3_NothingAfterFatalEmitted ==
    /\ [](last.state = "returned" => last.type # "Fatal")
    /\ [][FatalPending => (nEmitted' = nEmitted /\ pc' \in {pc, "Aborted"})]_vars

\* C3, amended: a Fatal message shows the dialog "Fatal: <message>" and, when
\* the dialog is closed, the process is aborted: the call never returns,
\* main() takes no step while the call is in progress, and after the abort
\* nothing runs at all.  (While the dialog is open its event loop may still
\* hand messages to MessageHandler.)
C3_FatalTerminates ==
    /\ \A c \in Calls :
        c.type = "Fatal"
        => /\ c.dialogs = << Chars("Fatal") \o Messages[c.m] >>
           /\ c.state \in {"dialog", "aborted"}
    /\ last.type = "Fatal" => FatalPrinted /\ pc = "Aborted"
    /\ FatalPending => ~ENABLED NextBoot
    /\ (stack # <<>> /\ stack[Len(stack)].type = "Fatal" /\ pc # "Aborted")
       => ENABLED CloseDialog
    /\ pc = "Aborted" => ~ENABLED Next
    /\ exitVia = "abort"
       <=> (FatalPrinted \/ \E i \in 1..Len(stack) : stack[i].state = "aborted")

C3_Witness ==
    /\ pc = "Aborted" /\ exitVia = "abort"
    /\ stack[Len(stack)].type = "Fatal" /\ stack[Len(stack)].state = "aborted"
    /\ nEmitted < MaxEvents
    /\ ~pluginsVerified /\ filterInstalled

\* C4 as stated: every message, of any severity, is written to standard
\* error exactly once.
C4_EveryMessageOnStderrOnce == \A c \in Calls : Len(c.stderr) = 1

\* C4, amended: a Debug, Info or Warning message is written to standard
\* error exactly once; MessageHandler writes nothing to standard error for a
\* Critical or Fatal message, which is reported by the dialog or answered
\* by the retry.
C4_StderrBySeverity ==
    \A c \in Calls :
        /\ c.type \in {"Debug", "Info", "Warning"}
           => c.stderr = << Chars(c.type) \o ExpectedBytes(c.m) >>
        /\ c.type \in {"Critical", "Fatal"} => c.stderr = <<>>

C4_Witness ==
    /\ stack # <<>> /\ stack[1].type = "Critical" /\ stack[1].stderr = <<>>
    /\ last.type = "Warning" /\ last.m = 3 /\ Len(last.stderr) = 1

\* C5: MessageHandler appends a line to the log file if and only if the
\* message is a Debug message and the environment variable is set, is not
\* empty and names a writable file; no other severity appends anything.
C5_LogFileOnlyForDebug ==
    (last.state = "returned")
    => ((last.logLines # <<>>)
        <=> (last.type = "Debug" /\ logEnv # Unset /\ logEnv # ""
                                 /\ Trimmed(logEnv) \in WritableFiles))

----------------------------------------------------------------------------
(* Properties of main(), checked under SpecBoot *)

\* The first list position whose directory exists and holds a loadable
\* translation for t, 0 when there is none
FirstLoadable(t) ==
    LET S == {i \in 1..Len(paths) : dirExists[paths[i]] /\ loadable[t][paths[i]]}
    IN IF S = {} THEN 0 ELSE CHOOSE i \in S : \A j \in S : i <= j

\* The number of list positions the loop of translator t has gone through
Processed(t) ==
    IF t \in installed THEN (IF loaded[t] # 0 THEN loaded[t] ELSE Len(paths))
    ELSE IF t = Translators[tr] THEN idx - 1
    ELSE 0

\* The positions up to n whose directory exists, in list order
ExistingUpTo(n) == SelectSeq([i \in 1..n |-> i], LAMBDA i : dirExists[paths[i]])

\* C6: when k is the first position whose directory exists and whose load
\* succeeds, the translator is loaded from k and load is called on no later
\* position; when there is none the translator stays unloaded, it is
\* installed all the same and main() goes on.
C6_FirstLoadableWins ==
    \A t \in {"qtbase", "sigil"} :
        /\ FirstLoadable(t) # 0
           => \A j \in 1..Len(attempts[t]) : attempts[t][j] <= FirstLoadable(t)
        /\ loaded[t] \in {0, FirstLoadable(t)}
        /\ t \in installed => loaded[t] = FirstLoadable(t)
        /\ (pc = "InstallingTranslations" /\ t = Translators[tr])
           => ENABLED (ResolveStep \/ InstallTranslator)
        /\ (pc \in {"ApplyingTheme", "StartingBackgroundUpdateCheck",
                    "InstallingEventFilters", "ParsingArguments"})
           => t \in installed

C6_Witness ==
    /\ Len(paths) = 3
    /\ \A d \in Dirs : dirExists[d]
    /\ FirstLoadable("qtbase") = 2 /\ loadable["qtbase"][paths[3]]
    /\ loaded["qtbase"] = 2 /\ attempts["qtbase"] = <<1, 2>>
    /\ FirstLoadable("sigil") = 0 /\ "sigil" \in installed
    /\ pc = "ApplyingTheme"

\* C7: in one pass, load is called on exactly the positions whose directory
\* exists, in list order, each position at most once, up to the position
\* the pass has reached: never on a missing directory, never twice on a
\* position, and a directory listed twice is tried at both positions.
C7_AttemptsInListOrder ==
    \A t \in {"qtbase", "sigil"} : attempts[t] = ExistingUpTo(Processed(t))

C7_Witness ==
    /\ paths = <<"d2", "d1", "d2">>
    /\ dirExists["d2"] /\ ~dirExists["d1"]
    /\ attempts["sigil"] = <<1, 3>>
    /\ "sigil" \in installed

\* C8: with "-t" anywhere in the argument list, VerifyPlugins is never
\* called, no window is made or shown, the event loop is never entered, and
\* main() prints the scratch directory path as its one line and returns 1.
\* (A run that an exception ends before the arguments are read returns 1
\* too, and prints nothing.)
C8_ScratchpadQuery ==
    Contains(argv, FlagT)
    => /\ ~pluginsVerified
       /\ mainWindow = NoWindow /\ ~baseWindowVisible
       /\ pc \notin {"VerifyingPlugins", "ShowingMainWindow", "RunningEventLoop"}
       /\ exitVia \in {"none", "scratchpad", "exception", "terminate"}
       /\ stdout \in {<<>>, <<ScratchPath>>}
       /\ exitVia = "scratchpad" <=> stdout = <<ScratchPath>>
       /\ pc = "Terminated" => exitStatus = 1
       /\ (pc = "ScratchpadQueryMode" /\ exitVia = "none") => ENABLED ScratchpadQueryMode
       /\ (pc = "ParsingArguments" /\ exitVia = "none")
          => ENABLED ParsingArguments /\ ~ENABLED VerifyPlugins

C8_Witness ==
    /\ argv = <<"sigil", "/book.epub", FlagT>>
    /\ pc = "Terminated" /\ exitVia = "scratchpad"
    /\ stdout = <<ScratchPath>> /\ exitStatus = 1

\* C9 as stated: the main window gets the first positional argument of the
\* command line when it names a readable file, and the empty path otherwise.
C9_PathFromCommandLine ==
    mainWindow.constructed
    => mainWindow.filepath
       = (IF Len(argv) > 1 /\ argv[2] \in ReadableFiles THEN argv[2] ELSE "")

\* C9, amended: the same, except that on macOS a command line without
\* arguments takes the path of the FileOpen event received at startup as
\* its first positional argument.  No error is shown in any case.
FirstPositional ==
    IF Len(argv) > 1 THEN argv[2]
    ELSE IF platform = "mac" THEN macOpenPath ELSE ""

C9_PathFromFirstPositional ==
    mainWindow.constructed
    => /\ mainWindow.filepath
          = (IF FirstPositional \in ReadableFiles THEN FirstPositional ELSE "")
       /\ exceptionDialogs = 0
       /\ ~Contains(argv, FlagT)

C9_Witness ==
    /\ platform = "mac" /\ argv = <<"sigil">> /\ macOpenPath = "/book.epub"
    /\ mainWindow.constructed /\ mainWindow.filepath = "/book.epub"

\* C10 as stated: no window is visible before VerifyPlugins has returned.
C10_NoWindowBeforeVerify ==
    (mainWindow.constructed \/ mainWindow.visible \/ baseWindowVisible) => pluginsVerified

\* C10, amended: the main window is neither made nor visible before
\* VerifyPlugins has returned; the one window that is shown earlier is the
\* menu bar host window of macOS.
C10_NoMainWindowBeforeVerify ==
    /\ (mainWindow.constructed \/ mainWindow.visible) => pluginsVerified
    /\ (baseWindowVisible /\ ~pluginsVerified) => platform = "mac"
    /\ pc \in {"ShowingMainWindow", "RunningEventLoop"} => pluginsVerified
    /\ exitVia = "eventloop" => pluginsVerified /\ mainWindow.visible

C10_Witness ==
    /\ platform = "mac" /\ baseWindowVisible
    /\ pluginsVerified /\ mainWindow.visible
    /\ pc = "RunningEventLoop"

----------------------------------------------------------------------------
(* Properties of the retry timers, checked under SpecLoop *)

\* C11: when a retry timer fires, copy() runs on its receiver if and only
\* if the receiver still exists at that moment, and on no other widget; a
\* timer whose receiver was deleted after it was set fires into nothing:
\* no copy, no message, no dialog, and main() is not disturbed.
C11_CopyOnlyOnLiveTarget ==
    [][(timers # <<>> /\ timers' = Tail(timers))
       => /\ fired'.target = Head(timers).target
          /\ fired'.copied <=> (Head(timers).target \in live)
          /\ fired'.copied => fired'.target \in live'
          /\ UNCHANGED <<live, focus, stack, last, nEmitted>>
          /\ UNCHANGED bootVars]_vars

\* The timer set for widget 1 has fired after widget 1 was deleted
C11_Witness ==
    /\ fired.target = 1 /\ ~fired.copied
    /\ 1 \notin live
    /\ timers = <<>> /\ nEmitted = 1
    /\ Len(last.scheduled) = 1 /\ last.scheduled[1].target = 1
    /\ pc = "RunningEventLoop" /\ exceptionDialogs = 0

----------------------------------------------------------------------------
(* Properties of the termination of main() *)

\* C12: an exception raised in any step from ConfiguringEnvironment to
\* ShowingMainWindow is caught by the catch block of main(): one error
\* dialog is shown, main() returns 1, and no step runs afterwards.
C12_EveryExceptionCaught ==
    exitVia \in {"exception", "terminate"}
    => /\ exceptionDialogs = 1
       /\ exitStatus = 1
       /\ pc = "Terminated"
       /\ ~ENABLED NextBoot

\* The bootstrap state of a step of the model: library paths and locale
\* codec (lines 262-270) belong to ConfiguringEnvironment, and a process
\* ended by abort() or std::terminate is terminated
BootstrapState(step) ==
    CASE step = "ConfiguringLibraries" -> "ConfiguringEnvironment"
      [] step = "Aborted" -> "Terminated"
      [] OTHER -> step

\* The fixed sequence of bootstrap states
Successors(state) ==
    CASE state = "ConfiguringEnvironment" -> {"LoadingPreferences"}
      [] state = "LoadingPreferences" -> {"InstallingTranslations"}
      [] state = "InstallingTranslations" -> {"ApplyingTheme"}
      [] state = "ApplyingTheme" -> {"StartingBackgroundUpdateCheck"}
      [] state = "StartingBackgroundUpdateCheck" -> {"InstallingEventFilters"}
      [] state = "InstallingEventFilters" -> {"ParsingArguments"}
      [] state = "ParsingArguments" -> {"ScratchpadQueryMode", "VerifyingPlugins"}
      [] state = "ScratchpadQueryMode" -> {"Terminated"}
      [] state = "VerifyingPlugins" -> {"ShowingMainWindow"}
      [] state = "ShowingMainWindow" -> {"RunningEventLoop"}
      [] state = "RunningEventLoop" -> {"Terminated"}
      [] OTHER -> {}

\* main() is in one of the given steps, or has returned in one of the given ways
Beyond(steps, returns) ==
    \/ pc \in steps
    \/ pc = "Terminated" /\ exitVia \in returns

FromFilters == {"ParsingArguments", "ScratchpadQueryMode", "VerifyingPlugins",
                "ShowingMainWindow", "RunningEventLoop"}

\* C13 as stated: the bootstrap state changes only to its successor in the
\* fixed sequence, or to Terminated, on every run.
C13_FixedSequence ==
    [][BootstrapState(pc') # BootstrapState(pc)
       => BootstrapState(pc') \in Successors(BootstrapState(pc)) \cup {"Terminated"}]_vars

\* C13, amended: the same, except that a Haiku build has no
\* StartingBackgroundUpdateCheck step: there main() goes from ApplyingTheme
\* to InstallingEventFilters and never starts an update check.  Every step
\* gone through has had its effect, the process leaves Terminated never,
\* and the abort is possible in every step: an exception in each step up
\* to ShowingMainWindow, a Fatal message wherever the handler is installed.
C13_FixedSequenceButHaiku ==
    /\ [][BootstrapState(pc') # BootstrapState(pc)
          => \/ BootstrapState(pc') \in Successors(BootstrapState(pc)) \cup {"Terminated"}
             \/ /\ platform = "haiku"
                /\ pc = "ApplyingTheme" /\ pc' = "InstallingEventFilters"]_vars
    /\ [](platform = "haiku" => pc # "StartingBackgroundUpdateCheck" /\ ~updateCheckStarted)
    /\ [](Beyond({"InstallingEventFilters"} \cup FromFilters, {"scratchpad", "eventloop"})
          => /\ installed = {"qtbase", "sigil"}
             /\ updateCheckStarted <=> platform # "haiku")
    /\ [](Beyond(FromFilters, {"scratchpad", "eventloop"}) => filterInstalled)
    /\ [](Beyond({"ShowingMainWindow", "RunningEventLoop"}, {"eventloop"}) => pluginsVerified)
    /\ [](Beyond({"RunningEventLoop"}, {"eventloop"}) => mainWindow.visible)
    /\ []((pc \in TrySteps \cup {"ConfiguringEnvironment"} /\ MainRuns)
          => ENABLED RaiseException)
    /\ []((Alive /\ nEmitted < MaxEvents /\ Len(stack) < MaxDialogs)
          => ENABLED Emit("Fatal", 1))

C13_Witness ==
    /\ platform = "haiku"
    /\ pc = "Terminated" /\ exitVia = "eventloop"
    /\ filterInstalled /\ ~updateCheckStarted
    /\ last.type = "Critical" /\ last.state = "returned"

\* C14: a run with "-t" in its argument list starts no update check,
\* installs no event filter and no translator and applies no stylesheet:
\* the printed line and the exit status are its only effects.
C14_NoOtherSideEffects ==
    Contains(argv, FlagT)
    => /\ ~updateCheckStarted
       /\ ~filterInstalled
       /\ installed = {}
       /\ ~styleApplied

RetryTarget(w) == IF WidgetKind[w] = "QComboBox" THEN ComboLineEdit(w) ELSE w

\* C16: the MessageHandler call that sets a retry timer has returned, with
\* no copy run, when the timer exists; the timer is for the widget that had
\* the focus when the message was handled (for a combo box its line edit)
\* and for RETRY_DELAY_MS; it fires in a later step of an event loop, not
\* before RETRY_DELAY_MS milliseconds have gone by, and on that same
\* widget wherever the focus is by then.
C16_RetryRunsLater ==
    /\ [][Len(timers') > Len(timers)
          => /\ last'.state = "returned" /\ last'.type = "Critical"
             /\ Len(last'.scheduled) = 1
             /\ timers' = timers \o last'.scheduled
             /\ last'.focus = FocusWidget
             /\ last'.scheduled[1].target = RetryTarget(last'.focus)
             /\ last'.scheduled[1].interval = RETRY_DELAY_MS
             /\ last'.scheduled[1].elapsed = 0
             /\ fired' = fired]_vars
    /\ [][Len(timers') < Len(timers)
          => /\ EventLoopRuns
             /\ timers' = Tail(timers)
             /\ fired'.target = Head(timers).target
             /\ fired'.waited >= RETRY_DELAY_MS
             /\ UNCHANGED <<focus, stack, last, nEmitted>>]_vars
    /\ [](fired # NoTimer => fired.waited >= RETRY_DELAY_MS)
    /\ [](\A i \in 1..Len(timers) : timers[i].elapsed <= timers[i].interval)

C16_Witness ==
    /\ last.type = "Critical" /\ last.state = "returned" /\ last.focus = 1
    /\ fired.target = 1 /\ fired.copied /\ fired.waited = RETRY_DELAY_MS
    /\ focus = 3
    /\ nEmitted = 1 /\ timers = <<>>

\* The widget classes that have a copy() slot
CopyKinds == {"QPlainTextEdit", "BookViewPreview", "QLineEdit"}

\* C17: a Critical message for which MessageHandler shows no dialog has set
\* a retry timer whose receiver is a widget, not null, with a copy() slot;
\* a message handled with focus on a combo box that has no line edit is
\* not lost without a dialog and without a retry.
C17_SuppressedMeansScheduled ==
    \A c \in Calls :
        (c.type = "Critical" /\ c.dialogs = <<>>)
        => /\ Len(c.scheduled) = 1
           /\ c.scheduled[1].target # NoWidget
           /\ WidgetKind[c.scheduled[1].target] \in CopyKinds

\* The step is a MessageHandler call that returns without a dialog
ReturnsAtOnce == nEmitted' = nEmitted + 1 /\ stack' = stack

\* C18: retry timers are set one for one with the matched Critical
\* messages (the clipboard error text at the start, a widget of a supported
\* class in focus, on Windows): each such message sets exactly one timer
\* and shows no dialog, however many came before it and also after a retry
\* has run, and no other step sets a timer; so the number of timers set so
\* far equals the number of matched messages handled so far.
C18_OneRetryPerMatchedEvent ==
    /\ [][(ReturnsAtOnce \/ Len(stack') > Len(stack))
          => LET c == IF ReturnsAtOnce THEN last' ELSE stack'[Len(stack')]
                 matched == /\ c.type = "Critical" /\ platform = "win32"
                            /\ HasSignature(c.m) /\ SupportedFocus(c.focus)
             IN /\ matched => Len(timers') = Len(timers) + 1 /\ c.dialogs = <<>>
                /\ ~matched => timers' = timers]_vars
    /\ [][Len(timers') > Len(timers) => ReturnsAtOnce]_vars

----------------------------------------------------------------------------
(* Properties of the order in which messages are handled *)

\* The step hands a message to Qt's message output
Emits == nEmitted' = nEmitted + 1

\* C19 as stated: a message is taken up only when the handling of every
\* earlier message is complete, also while a modal dialog of the handler is
\* open.
C19_StrictEmissionOrder == [][Emits => stack = <<>>]_vars

\* C19, amended: messages are taken up one at a time in the order they are
\* emitted, each within the step that emits it, and while no dialog of the
\* handler is open a message is handled to the end before the next one is
\* taken up.  While the dialog of a Critical or Fatal message is open, its
\* event loop goes on firing timers and delivering events, and a message
\* emitted then is dealt with before the earlier call completes: a Qt with
\* the recursion guard keeps it from MessageHandler and prints it, a Qt
\* without calls MessageHandler again, nested in the earlier call, and the
\* nested calls complete innermost first.  main() takes no step meanwhile.
C19_NestedInOpenDialog ==
    /\ [][Emits
          => \/ /\ stack' = stack
                /\ last'.state = IF recursionGuard /\ stack # <<>>
                                 THEN "printed" ELSE "returned"
             \/ /\ ~(recursionGuard /\ stack # <<>>)
                /\ Len(stack') = Len(stack) + 1
                /\ SubSeq(stack', 1, Len(stack)) = stack
                /\ stack'[Len(stack')].state = "dialog"
                /\ last' = last]_vars
    /\ [][(stack' # stack /\ ~Emits)
          => /\ stack # <<>>
             /\ SubSeq(stack', 1, Len(stack) - 1) = SubSeq(stack, 1, Len(stack) - 1)
             /\ \/ stack' = SubSeq(stack, 1, Len(stack) - 1)
                   /\ last' = Return(stack[Len(stack)])
                \/ Len(stack') = Len(stack)
                   /\ stack'[Len(stack)].state = "aborted" /\ pc' = "Aborted"]_vars
    /\ [](recursionGuard => Len(stack) <= 1)
    /\ [](stack # <<>> => ~ENABLED NextBoot)
    /\ []((stack # <<>> /\ timers # <<>> /\ Alive
                        /\ Head(timers).elapsed >= Head(timers).interval)
          => ENABLED FireRetry)

C19_Witness ==
    /\ recursionGuard
    /\ stack # <<>> /\ stack[1].type = "Critical" /\ stack[1].state = "dialog"
    /\ last.state = "printed" /\ last.type = "Critical"
    /\ nEmitted = 2
    /\ pc = "RunningEventLoop"

----------------------------------------------------------------------------
(* Properties of the builds without the clipboard retry *)

\* C20: on a build that is not for Windows no retry timer is ever set or
\* fired: every Critical message MessageHandler handles, also one that
\* starts with the clipboard error text while a widget of a supported class
\* has the focus, shows the dialog "Critical: <message>" exactly once, and
\* the call returns when the dialog is closed.
C20_NoRetryOffWindows ==
    platform # "win32"
    => /\ timers = <<>> /\ fired = NoTimer
       /\ \A c \in Calls :
            c.type = "Critical"
            => /\ c.dialogs = << Chars("Critical") \o ExpectedText(c.m) >>
               /\ c.scheduled = <<>> /\ ~c.handled
               /\ c.state \in {"dialog", "returned"}
       /\ (Alive /\ stack # <<>> /\ stack[Len(stack)].type = "Critical")
          => ENABLED (CloseDialog /\ pc' = pc /\ last' = Return(stack[Len(stack)]))

C20_Witness ==
    /\ platform = "mac"
    /\ last.type = "Critical" /\ HasSignature(last.m) /\ last.focus = 1
    /\ last.state = "returned" /\ Len(last.dialogs) = 1
    /\ pc = "RunningEventLoop" /\ nEmitted = 1

=============================================================================
